---------------------------- MODULE Spec2Model ----------------------------
(***************************************************************************)
(* Model of the pdfchat-demo store lifecycle and query engine:             *)
(*   app/utils/config.py            Config (embedding dimension, URL)      *)
(*   app/database/pgvector_store.py PGVectorManager                        *)
(*   app/core/retriever.py          RAGQueryEngine                         *)
(***************************************************************************)
EXTENDS Integers, Sequences, FiniteSets, TLC

(***************************************************************************)
(* Bounds of the model.                                                    *)
(***************************************************************************)
MaxDimLen == 2      \* longest enumerated OPENAI_EMBEDDING_MODEL_DIM string
MaxNodes == 2       \* longest node list handed to create_index_from_nodes
MaxRows == 3        \* most rows the table holds
MaxBuilds == 2      \* most index handles built
MaxSources == 3     \* most chunks the store ranks for one query
MaxOrphans == 1     \* most replaced connections left open
MaxCallers == 2     \* calls of query in progress on one engine

(***************************************************************************)
(* Program constants.                                                      *)
(***************************************************************************)
DefaultEmbedDim == 1536
DefaultTopK == 4         \* similarity_top_k
DefaultCutoff == 70      \* similarity_cutoff 0.7, in hundredths

(***************************************************************************)
(* Strings are sequences of one-character strings.  An environment         *)
(* variable is [set |-> BOOLEAN, val |-> string]: os.getenv returns None   *)
(* when it is not set.                                                     *)
(***************************************************************************)
Unset == [set |-> FALSE, val |-> <<>>]
EnvStr(s) == [set |-> TRUE, val |-> s]

Digits == {"0", "1", "2", "3", "4", "5", "6", "7", "8", "9"}
DigitVal(c) ==
    CASE c = "0" -> 0 [] c = "1" -> 1 [] c = "2" -> 2 [] c = "3" -> 3
      [] c = "4" -> 4 [] c = "5" -> 5 [] c = "6" -> 6 [] c = "7" -> 7
      [] c = "8" -> 8 [] c = "9" -> 9
Whitespace == {" ", "\t"}

\* str.lower() on the characters the model uses
LowerChar(c) ==
    CASE c = "N" -> "n" [] c = "O" -> "o" [] c = "E" -> "e" [] c = "A" -> "a"
      [] OTHER -> c
Lower(s) == [i \in 1..Len(s) |-> LowerChar(s[i])]

\* str.strip(): leading and trailing whitespace removed
RECURSIVE LStrip(_)
LStrip(s) == IF s # <<>> /\ Head(s) \in Whitespace THEN LStrip(Tail(s)) ELSE s
RECURSIVE RStrip(_)
RStrip(s) ==
    IF s # <<>> /\ s[Len(s)] \in Whitespace
    THEN RStrip(SubSeq(s, 1, Len(s) - 1)) ELSE s
Strip(s) == RStrip(LStrip(s))

\* int(str): optional surrounding whitespace, an optional sign, then decimal
\* digits, where single underscores may separate digits.
Unsigned(s) == IF s # <<>> /\ Head(s) \in {"+", "-"} THEN Tail(s) ELSE s
IsDigitBody(b) ==
    /\ b # <<>>
    /\ \A i \in 1..Len(b) : b[i] \in Digits \cup {"_"}
    /\ b[1] \in Digits
    /\ b[Len(b)] \in Digits
    /\ \A i \in 1..(Len(b) - 1) : ~(b[i] = "_" /\ b[i + 1] = "_")
IsIntLiteral(s) == IsDigitBody(Unsigned(Strip(s)))
RECURSIVE DigitsValue(_, _)
DigitsValue(b, acc) ==
    IF b = <<>> THEN acc
    ELSE IF Head(b) = "_" THEN DigitsValue(Tail(b), acc)
    ELSE DigitsValue(Tail(b), 10 * acc + DigitVal(Head(b)))
IntValue(s) ==
    LET t == Strip(s)
        v == DigitsValue(Unsigned(t), 0)
    IN  IF t # <<>> /\ Head(t) = "-" THEN 0 - v ELSE v

\* Config.OPENAI_EMBEDDING_MODEL_DIM as the class body computes it from
\* os.getenv("OPENAI_EMBEDDING_MODEL_DIM")
\* variant of ConfigDim without the `<= 0` test of line 50
ConfigDimNoSignCheck(e) ==
    IF ~e.set \/ Lower(e.val) = <<"n", "o", "n", "e">> \/ Strip(e.val) = <<>>
    THEN DefaultEmbedDim
    ELSE IF ~IsIntLiteral(e.val) THEN DefaultEmbedDim
    ELSE IntValue(e.val)
\* lines 43-55
ConfigDim(e) ==
    IF ~e.set \/ Lower(e.val) = <<"n", "o", "n", "e">> \/ Strip(e.val) = <<>>
    THEN DefaultEmbedDim
    ELSE IF ~IsIntLiteral(e.val) THEN DefaultEmbedDim    \* ValueError
    ELSE IF IntValue(e.val) <= 0 THEN DefaultEmbedDim
    ELSE IntValue(e.val)

\* PGVectorManager.initialize: the embedding dimension after its validation
\* (embed_dim is always an int here: it is copied from Config)
ValidEmbedDim(d) == IF d <= 0 THEN DefaultEmbedDim ELSE d

(***************************************************************************)
(* The enumerated environment values.                                      *)
(***************************************************************************)
DimChars == {"1", "0", "-", " ", "a", "_"}
RECURSIVE StringsUpTo(_)
StringsUpTo(n) ==
    IF n = 0 THEN {<<>>}
    ELSE LET shorter == StringsUpTo(n - 1)
         IN  shorter \cup {Append(s, c) : s \in shorter, c \in DimChars}
DimSamples ==
    { <<"a", "b", "c">>, <<"-", "5">>, <<"N", "o", "n", "e">>,
      <<"n", "o", "n", "e">>, <<"1", "5", "3", "6">>, <<"+", "7">>,
      <<" ", "4", "2", " ">>, <<"1", ".", "5">>, <<"7", "6", "8">>,
      <<"\t">>, <<"-", "0">>, <<"1", "_", "0">> }
EnvDims == {Unset} \cup {EnvStr(s) : s \in StringsUpTo(MaxDimLen) \cup DimSamples}
EnvUrls == {Unset, EnvStr(<<>>), EnvStr(<<"p", "g">>)}
\* OPENAI_API_KEY in the environment: unset, empty, blank, or a key
EnvKeys == {Unset, EnvStr(<<>>), EnvStr(<<" ">>), EnvStr(<<"s", "k">>)}
\* bool(v) of an Optional[str]
Truthy(v) == v.set /\ v.val # <<>>
\* variant of ValidateConfigOutcome without the test of lines 71-72
ValidateConfigKeyOnly(key, url) == [raised |-> ~Truthy(key)]
\* Config.validate_config, lines 65-78: the model-name branch only replaces
\* the name and never raises
ValidateConfigOutcome(key, url) == [raised |-> ~Truthy(key) \/ ~Truthy(url)]


(***************************************************************************)
(* State.                                                                  *)
(***************************************************************************)
VARIABLES
    pc,                          \* "boot" | "configured" | "manager" | "engine"
                                 \* | "validated" | "created" | "launched"
                                 \* | "exit"
    env_dim, env_url, env_key,   \* the process environment
    OPENAI_EMBEDDING_MODEL_DIM,  \* Config class attributes
    PGVECTOR_URL,
    OPENAI_API_KEY,
    embed_dim, vector_store, storage_context, index, conn,   \* PGVectorManager
    dbExtension, dbTable, dbRows,                            \* the database
    orphans,                     \* connections the manager opened, no longer
                                 \* references and never closed
    filters, hasSlot,            \* RAGQueryEngine: query_engine.retriever.filters
    similarity_top_k,            \* RAGQueryEngine.__init__ arguments
    similarity_cutoff,
    query_engine,                \* what as_query_engine was given
    knowledge_base,
    mode,                        \* "serial": callers of query are serialized
                                 \* from outside; "concurrent": they are not
    prior,                       \* the active filter before the calls began
    thr,                         \* per query call in progress: its position,
                                 \* filters argument and original_filters
              \* GradioInterface.knowledge_base
    built,                       \* history: the last successful index build
    last, prev                   \* history: the last call and the one before

cfgVars == <<env_dim, env_url, env_key, OPENAI_EMBEDDING_MODEL_DIM,
             PGVECTOR_URL, OPENAI_API_KEY>>
mgrVars == <<embed_dim, vector_store, storage_context, index, conn>>
dbVars == <<dbExtension, dbTable, dbRows, orphans>>
concVars == <<mode, prior, thr>>
engCfgVars == <<hasSlot, similarity_top_k, similarity_cutoff, query_engine,
                knowledge_base, concVars>>
engVars == <<filters, engCfgVars>>
vars == <<pc, cfgVars, mgrVars, dbVars, engVars, built, last, prev>>

None == "None"
NoIndex == [serial |-> 0, nodes |-> <<>>]
NoFilter == "None"

\* The manager never looks into a node: one chunk stands for all of them, and
\* a node list for its length.
Chunks == {"c1"}
RECURSIVE ListsUpTo(_)
ListsUpTo(n) ==
    IF n = 0 THEN {<<>>}
    ELSE LET shorter == ListsUpTo(n - 1)
         IN  shorter \cup {Append(s, c) : s \in shorter, c \in Chunks}
NodeLists == ListsUpTo(MaxNodes)

\* How one statement sent over the auxiliary connection ends: it succeeds, the
\* server rejects it, or the connection breaks (psycopg2 then reports the
\* connection as closed).
Outcomes == {"ok", "error", "lost"}
\* A statement on a closed connection raises before it reaches the server.
Effective(c, out) == IF c = "open" THEN out ELSE "error"
ConnAfter(c, out) == IF c = "open" /\ out = "lost" THEN "closed" ELSE c

Mgr == [embed_dim |-> embed_dim, vector_store |-> vector_store,
        storage_context |-> storage_context, index |-> index, conn |-> conn]
Db == [ext |-> dbExtension, table |-> dbTable, rows |-> dbRows,
       orphans |-> orphans]

NoCall == [op |-> "none", raised |-> FALSE, count |-> 0, handle |-> NoIndex,
           calls |-> <<>>, fail |-> {}, pre |-> None, arg |-> None,
           used |-> None, response |-> "", citations |-> <<>>,
           sources |-> <<>>, out |-> [message |-> "", citations |-> <<>>],
           at_build |-> [ext |-> FALSE, table |-> FALSE]]
Call(op, raised, calls, fail, pre) ==
    [NoCall EXCEPT !.op = op, !.raised = raised, !.calls = calls,
                   !.fail = fail, !.pre = pre]
\* what is kept of the call before the last one: its name and, for clear_data,
\* the path it took
Brief(c) ==
    IF c.op = "clear_data"
    THEN [op |-> c.op, calls |-> c.calls, fail |-> c.fail]
    ELSE [op |-> c.op, calls |-> <<>>, fail |-> {}]

(***************************************************************************)
(* PGVectorManager.initialize                                              *)
(***************************************************************************)
\* What the environment does during one initialize: whether connect and
\* from_params return, and how each statement ends.  An outcome of a statement
\* that is never sent is fixed to "ok", so that each run is enumerated once.
\* finalized: whether the runtime finalizes (and so closes) the connection
\* object that self.conn referenced when lines 56 or 70 rebind self.conn; the
\* code itself never closes it.
InitInputs ==
    { in \in [connect : BOOLEAN, ext : Outcomes, store : BOOLEAN,
              exists : Outcomes, create : Outcomes, finalized : BOOLEAN] :
        /\ ~in.connect => in.ext = "ok"
        /\ (~in.connect \/ ~in.store \/ in.ext = "lost")
             => (in.exists = "ok" /\ in.create = "ok")
        /\ in.exists # "ok" => in.create = "ok" }
NoInit == [connect |-> TRUE, ext |-> "ok", store |-> TRUE,
           exists |-> "ok", create |-> "ok", finalized |-> TRUE]

\* lines 54-70: the auxiliary connection and CREATE EXTENSION
Replaced(m, d, in) ==
    IF m.conn = "open" /\ ~in.finalized THEN d.orphans + 1 ELSE d.orphans
InitConnect(m, d, in) ==
    IF ~in.connect
    THEN [conn |-> None, ext |-> d.ext, fail |-> {"connect"},
          orphans |-> Replaced(m, d, in)]
    ELSE [conn |-> ConnAfter("open", in.ext),
          ext |-> d.ext \/ in.ext = "ok",
          fail |-> IF in.ext = "ok" THEN {} ELSE {"extension"},
          orphans |-> Replaced(m, d, in)]

\* variant of InitTable that checks for the table and never creates it
InitTableCheckOnly(c, ext, d, in) ==
    IF c = None THEN [conn |-> c, table |-> d.table, fail |-> {}]
    ELSE [conn |-> ConnAfter(c, in.exists), table |-> d.table,
          fail |-> IF Effective(c, in.exists) # "ok" THEN {"exists"} ELSE {}]

\* lines 98-129: the table check and the manual CREATE TABLE
InitTable(c, ext, d, in) ==
    IF c = None THEN [conn |-> c, table |-> d.table, fail |-> {}]
    ELSE LET ex == Effective(c, in.exists)
             c1 == ConnAfter(c, in.exists)
         IN  IF ex # "ok" THEN [conn |-> c1, table |-> d.table, fail |-> {"exists"}]
             ELSE IF d.table THEN [conn |-> c1, table |-> TRUE, fail |-> {}]
             ELSE \* VECTOR(n) columns need the extension
                  LET cr == IF ext THEN in.create
                            ELSE IF in.create = "ok" THEN "error" ELSE in.create
                  IN  [conn |-> ConnAfter(c1, cr), table |-> cr = "ok",
                       fail |-> IF cr = "ok" THEN {} ELSE {"create"}]

\* variant of InitializeOutcome in which a failing connect or CREATE EXTENSION
\* aborts initialize as well
InitializeStoreFailureFatalForAll(m, d, in) ==
    LET a == InitConnect(m, d, in)
        dim == ValidEmbedDim(m.embed_dim)
    IN  IF ~in.store \/ a.fail # {}
        THEN [m |-> [m EXCEPT !.embed_dim = dim, !.conn = a.conn],
              d |-> [d EXCEPT !.ext = a.ext, !.orphans = a.orphans],
              raised |-> TRUE,
              fail |-> a.fail \cup (IF in.store THEN {} ELSE {"store"})]
        ELSE LET t == InitTable(a.conn, a.ext, d, in)
             IN  [m |-> [m EXCEPT !.embed_dim = dim, !.conn = t.conn,
                                  !.vector_store = "PGVectorStore",
                                  !.storage_context = "StorageContext"],
                  d |-> [d EXCEPT !.ext = a.ext, !.table = t.table,
                                  !.orphans = a.orphans],
                  raised |-> FALSE, fail |-> a.fail \cup t.fail]

\* lines 44-138
InitializeOutcome(m, d, in) ==
    LET a == InitConnect(m, d, in)
        dim == ValidEmbedDim(m.embed_dim)
    IN  IF ~in.store
        THEN \* PGVectorStore.from_params raised: re-raised at lines 96 and 138
             [m |-> [m EXCEPT !.embed_dim = dim, !.conn = a.conn],
              d |-> [d EXCEPT !.ext = a.ext, !.orphans = a.orphans],
              raised |-> TRUE, fail |-> a.fail \cup {"store"}]
        ELSE LET t == InitTable(a.conn, a.ext, d, in)
             IN  [m |-> [m EXCEPT !.embed_dim = dim, !.conn = t.conn,
                                  !.vector_store = "PGVectorStore",
                                  !.storage_context = "StorageContext"],
                  d |-> [d EXCEPT !.ext = a.ext, !.table = t.table,
                                  !.orphans = a.orphans],
                  raised |-> FALSE, fail |-> a.fail \cup t.fail]

(***************************************************************************)
(* PGVectorManager.create_index_from_nodes                                 *)
(***************************************************************************)
\* lines 154-172: VectorStoreIndex(nodes, storage_context) writes the nodes to
\* the store (whose client creates its table on first write) and the handle is
\* kept in self.index; when the constructor raises nothing is assigned.
\* at: whether the extension and the table exist when the constructor is
\* called.
BuildCall(m) == IF m.storage_context = None THEN "build(None)" ELSE "build"
\* variant of BuildIndex that clears self.index when the constructor raises
BuildIndexDropOnFailure(m, d, nodes, ok, serial) ==
    IF ok
    THEN [m |-> [m EXCEPT !.index = [serial |-> serial, nodes |-> nodes]],
          d |-> [d EXCEPT !.table = TRUE, !.rows = d.rows + Len(nodes)],
          raised |-> FALSE, calls |-> <<BuildCall(m)>>, fail |-> {},
          at |-> [ext |-> d.ext, table |-> d.table]]
    ELSE [m |-> [m EXCEPT !.index = NoIndex], d |-> d, raised |-> TRUE,
          calls |-> <<BuildCall(m)>>, fail |-> {"build"},
          at |-> [ext |-> d.ext, table |-> d.table]]
BuildIndex(m, d, nodes, ok, serial) ==
    IF ok
    THEN [m |-> [m EXCEPT !.index = [serial |-> serial, nodes |-> nodes]],
          d |-> [d EXCEPT !.table = TRUE, !.rows = d.rows + Len(nodes)],
          raised |-> FALSE, calls |-> <<BuildCall(m)>>, fail |-> {},
          at |-> [ext |-> d.ext, table |-> d.table]]
    ELSE [m |-> m, d |-> d, raised |-> TRUE,
          calls |-> <<BuildCall(m)>>, fail |-> {"build"},
          at |-> [ext |-> d.ext, table |-> d.table]]

\* variant of CreateIndexOutcome without lines 151-152
CreateIndexNoAutoInit(m, d, nodes, in, ok, serial) ==
    BuildIndex(m, d, nodes, ok, serial)
CreateIndexOutcome(m, d, nodes, in, ok, serial) ==
    IF m.storage_context = None
    THEN LET i == InitializeOutcome(m, d, in)          \* lines 151-152
         IN  IF i.raised
             THEN [m |-> i.m, d |-> i.d, raised |-> TRUE,
                   calls |-> <<"initialize">>, fail |-> i.fail,
                   at |-> NoCall.at_build]
             ELSE LET b == BuildIndex(i.m, i.d, nodes, ok, serial)
                  IN  [b EXCEPT !.calls = <<"initialize">> \o b.calls,
                                !.fail = i.fail \cup b.fail]
    ELSE BuildIndex(m, d, nodes, ok, serial)

(***************************************************************************)
(* PGVectorManager.clear_data                                              *)
(***************************************************************************)
\* TRUNCATE of a table that does not exist is rejected by the server
TruncateOutcome(d, out) == IF ~d.table /\ out = "ok" THEN "error" ELSE out

\* variant of ClearDataOutcome that sends TRUNCATE whether or not delete raised
ClearDataAlwaysTruncate(m, d, del, trunc) ==
    IF m.vector_store = None
    THEN [m |-> m, d |-> d, raised |-> FALSE, calls |-> <<>>, fail |-> {}]
    ELSE LET tr == TruncateOutcome(d, Effective(m.conn, trunc))
         IN  [m |-> [m EXCEPT !.conn = ConnAfter(m.conn, trunc)],
              d |-> [d EXCEPT !.rows = IF del \/ tr = "ok" THEN 0 ELSE d.rows],
              raised |-> FALSE, calls |-> <<"delete", "truncate">>,
              fail |-> (IF del THEN {} ELSE {"delete"})
                         \cup (IF tr = "ok" THEN {} ELSE {"truncate"})]
\* variant of ClearDataOutcome without the TRUNCATE fallback
ClearDataNoFallback(m, d, del, trunc) ==
    IF m.vector_store = None
    THEN [m |-> m, d |-> d, raised |-> FALSE, calls |-> <<>>, fail |-> {}]
    ELSE IF del
    THEN [m |-> m, d |-> [d EXCEPT !.rows = 0], raised |-> FALSE,
          calls |-> <<"delete">>, fail |-> {}]
    ELSE [m |-> m, d |-> d, raised |-> FALSE,
          calls |-> <<"delete">>, fail |-> {"delete"}]
\* variant of ClearDataOutcome that forgets the index handle with the rows
ClearDataDropsIndex(m, d, del, trunc) ==
    IF m.vector_store = None
    THEN [m |-> m, d |-> d, raised |-> FALSE, calls |-> <<>>, fail |-> {}]
    ELSE IF del
    THEN [m |-> [m EXCEPT !.index = NoIndex], d |-> [d EXCEPT !.rows = 0],
          raised |-> FALSE, calls |-> <<"delete">>, fail |-> {}]
    ELSE IF m.conn # "open"
    THEN [m |-> m, d |-> d, raised |-> FALSE,
          calls |-> <<"delete">>, fail |-> {"delete"}]
    ELSE LET tr == TruncateOutcome(d, trunc)
         IN  [m |-> [m EXCEPT !.conn = ConnAfter(m.conn, trunc)],
              d |-> [d EXCEPT !.rows = IF tr = "ok" THEN 0 ELSE d.rows],
              raised |-> FALSE, calls |-> <<"delete", "truncate">>,
              fail |-> IF tr = "ok" THEN {"delete"} ELSE {"delete", "truncate"}]
ClearDataOutcome(m, d, del, trunc) ==
    IF m.vector_store = None
    THEN [m |-> m, d |-> d, raised |-> FALSE, calls |-> <<>>, fail |-> {}]
    ELSE IF del                                         \* line 182 returned
    THEN [m |-> m, d |-> [d EXCEPT !.rows = 0], raised |-> FALSE,
          calls |-> <<"delete">>, fail |-> {}]
    ELSE IF m.conn # "open"                             \* line 187
    THEN [m |-> m, d |-> d, raised |-> FALSE,
          calls |-> <<"delete">>, fail |-> {"delete"}]
    ELSE LET tr == TruncateOutcome(d, trunc)            \* lines 188-193
         IN  [m |-> [m EXCEPT !.conn = ConnAfter(m.conn, trunc)],
              d |-> [d EXCEPT !.rows = IF tr = "ok" THEN 0 ELSE d.rows],
              raised |-> FALSE, calls |-> <<"delete", "truncate">>,
              fail |-> IF tr = "ok" THEN {"delete"} ELSE {"delete", "truncate"}]

(***************************************************************************)
(* PGVectorManager.get_document_count                                      *)
(***************************************************************************)
\* variant of CountOutcome without the except of lines 220-222
CountRaisesOnSqlError(m, d, exists, count) ==
    IF m.vector_store = None \/ m.conn # "open"
    THEN [m |-> m, count |-> 0, raised |-> FALSE, fail |-> {}]
    ELSE IF exists # "ok"
    THEN [m |-> [m EXCEPT !.conn = ConnAfter(m.conn, exists)], count |-> 0,
          raised |-> TRUE, fail |-> {"exists"}]
    ELSE IF ~d.table
    THEN [m |-> m, count |-> 0, raised |-> FALSE, fail |-> {}]
    ELSE IF count # "ok"
    THEN [m |-> [m EXCEPT !.conn = ConnAfter(m.conn, count)], count |-> 0,
          raised |-> TRUE, fail |-> {"count"}]
    ELSE [m |-> m, count |-> d.rows, raised |-> FALSE, fail |-> {}]
\* variant of CountOutcome with the test of line 202 inverted
CountConnCheckInverted(m, d, exists, count) ==
    IF m.vector_store = None \/ m.conn = "open"
    THEN [m |-> m, count |-> 0, raised |-> FALSE, fail |-> {}]
    ELSE [m |-> m, count |-> 0, raised |-> FALSE, fail |-> {"exists"}]
CountOutcome(m, d, exists, count) ==
    IF m.vector_store = None                            \* lines 197-198
    THEN [m |-> m, count |-> 0, raised |-> FALSE, fail |-> {}]
    ELSE IF m.conn # "open"                             \* lines 202, 224-229
    THEN [m |-> m, count |-> 0, raised |-> FALSE, fail |-> {}]
    ELSE IF exists # "ok"                               \* lines 220-222
    THEN [m |-> [m EXCEPT !.conn = ConnAfter(m.conn, exists)], count |-> 0,
          raised |-> FALSE, fail |-> {"exists"}]
    ELSE IF ~d.table                                    \* lines 212-214
    THEN [m |-> m, count |-> 0, raised |-> FALSE, fail |-> {}]
    ELSE IF count # "ok"                                \* lines 220-222
    THEN [m |-> [m EXCEPT !.conn = ConnAfter(m.conn, count)], count |-> 0,
          raised |-> FALSE, fail |-> {"count"}]
    ELSE [m |-> m, count |-> d.rows, raised |-> FALSE, fail |-> {}]

(***************************************************************************)
(* RAGQueryEngine                                                          *)
(***************************************************************************)
Filters == {"f1", "f2"}

\* variant of ApplyFilterOutcome without the hasattr test of line 86
ApplyFilterUnconditional(active, slot, f) == f
\* apply_filter, lines 86-90
ApplyFilterOutcome(active, slot, f) == IF slot THEN f ELSE active

\* RAGQueryEngine.__init__, lines 62-72: the engine is built with
\* similarity_top_k and a SimilarityPostprocessor(similarity_cutoff).
TopKs == {1, DefaultTopK}
Cutoffs == {DefaultCutoff, 90}
\* variant of AsQueryEngine that passes no node_postprocessors
AsQueryEngineNoPostprocessor(k, c) ==
    [similarity_top_k |-> k, similarity_cutoff |-> 0]
AsQueryEngine(k, c) ==
    [similarity_top_k |-> k, similarity_cutoff |-> c]

\* The chunks of the store with their score against the query (scores in
\* hundredths), as the store ranks them: by descending score.
Contents == {"c1", "c2", "c3"}
Scores == {90, 75, 50}
ScoreOf(c) == CASE c = "c1" -> 90 [] c = "c2" -> 75 [] c = "c3" -> 50
SourceNodes ==
    { [node |-> [content |-> c, metadata |-> [file_name |-> c]],
       score |-> ScoreOf(c)] : c \in Contents }
RECURSIVE SourceListsUpTo(_)
SourceListsUpTo(n) ==
    IF n = 0 THEN {<<>>}
    ELSE LET shorter == SourceListsUpTo(n - 1)
         IN  shorter \cup {Append(s, x) : s \in shorter, x \in SourceNodes}
Ranked(l) == \A i \in 1..(Len(l) - 1) : l[i].score >= l[i + 1].score
RankedLists == { l \in SourceListsUpTo(MaxSources) : Ranked(l) }

\* query_engine.query of the retrieval framework: the first similarity_top_k
\* ranked chunks, without those the postprocessor drops for a score below the
\* cutoff; the answer is generated from the rest.
Retrieve(ranked, k) == SubSeq(ranked, 1, IF k < Len(ranked) THEN k ELSE Len(ranked))
Postprocess(nodes, c) == SelectSeq(nodes, LAMBDA x : x.score >= c)
EngineQuery(qe, ranked) ==
    [text |-> "answer",
     source_nodes |-> Postprocess(Retrieve(ranked, qe.similarity_top_k),
                                  qe.similarity_cutoff)]

\* variant of FormatCitations that emits the citations in reverse order
FormatCitationsReversed(source_nodes) ==
    [i \in 1..Len(source_nodes) |->
        [content |-> source_nodes[Len(source_nodes) + 1 - i].node.content,
         score |-> source_nodes[Len(source_nodes) + 1 - i].score,
         metadata |-> source_nodes[Len(source_nodes) + 1 - i].node.metadata]]
\* lines 119-135
FormatCitations(source_nodes) ==
    [i \in 1..Len(source_nodes) |->
        [content |-> source_nodes[i].node.content,
         score |-> source_nodes[i].score,
         metadata |-> source_nodes[i].node.metadata]]

\* query, lines 103-138.  active: retriever.filters before the call; slot:
\* whether the retriever has a filters attribute; arg: the filters argument
\* (NoFilter for None); ok: whether query_engine.query returned.
QueryOutcome(active, slot, arg, ok, response) ==
    LET substituted == arg # NoFilter /\ slot                   \* line 108
        original_filters == IF substituted THEN active ELSE None
        during == IF substituted THEN arg ELSE active           \* line 110
    IN  IF ~ok
        THEN [filters |-> during, used |-> during, raised |-> TRUE,
              response |-> "", citations |-> <<>>, sources |-> <<>>]
        ELSE [filters |-> IF arg # NoFilter /\ original_filters # None
                          THEN original_filters                 \* lines 116-117
                          ELSE during,
              used |-> during, raised |-> FALSE,
              response |-> response.text,
              citations |-> FormatCitations(response.source_nodes),
              sources |-> response.source_nodes]

\* The statements of query that read and write retriever.filters, one by one.
Callers == 1..MaxCallers
Idle == [pc |-> "idle", arg |-> NoFilter, original_filters |-> None,
         substituted |-> FALSE, raised |-> FALSE]
\* line 108: the test that guards lines 109-110
Substitutes(slot, arg) == arg # NoFilter /\ slot
\* variant of RestoredFilters for a query without lines 116-117
RestoredFiltersNever(active, arg, original_filters) == active
\* lines 116-117
RestoredFilters(active, arg, original_filters) ==
    IF arg # NoFilter /\ original_filters # None
    THEN original_filters ELSE active

(***************************************************************************)
(* KnowledgeBase.query and GradioInterface.query_knowledge_base            *)
(***************************************************************************)
\* KnowledgeBase.query hands the text to its query engine, without per-call
\* filters, and returns or raises what the engine does.
KnowledgeBaseQuery(active, slot, ok, response) ==
    QueryOutcome(active, slot, NoFilter, ok, response)

\* gradio_interface.py lines 305-318: the citations as rendered for the page
FormatSources(citations) ==
    [i \in 1..Len(citations) |->
        [n |-> i, file_name |-> citations[i].metadata.file_name,
         content |-> citations[i].content]]

\* variant of QueryKnowledgeBaseOutcome without the except of lines 321-323
QueryKnowledgeBaseNoExcept(valid, kb, active, slot, ok, response) ==
    IF ~valid \/ kb = None
    THEN [filters |-> active, raised |-> FALSE, fail |-> {},
          message |-> "rejected", citations |-> <<>>]
    ELSE LET r == KnowledgeBaseQuery(active, slot, ok, response)
         IN  [filters |-> r.filters, raised |-> r.raised,
              fail |-> IF r.raised THEN {"query"} ELSE {},
              message |-> r.response, citations |-> FormatSources(r.citations)]
\* gradio_interface.py lines 284-323
QueryKnowledgeBaseOutcome(valid, kb, active, slot, ok, response) ==
    IF ~valid                                           \* lines 294-295
    THEN [filters |-> active, raised |-> FALSE, fail |-> {},
          message |-> "enter a query", citations |-> <<>>]
    ELSE IF kb = None                                   \* lines 298-299
    THEN [filters |-> active, raised |-> FALSE, fail |-> {},
          message |-> "not initialized", citations |-> <<>>]
    ELSE LET r == KnowledgeBaseQuery(active, slot, ok, response)
         IN  IF r.raised                                \* lines 321-323
             THEN [filters |-> r.filters, raised |-> FALSE, fail |-> {"query"},
                   message |-> "query failed", citations |-> <<>>]
             ELSE [filters |-> r.filters, raised |-> FALSE, fail |-> {},
                   message |-> r.response,
                   citations |-> FormatSources(r.citations)]

(***************************************************************************)
(* Actions                                                                 *)
(***************************************************************************)
Record(c) == /\ last' = c
             /\ prev' = Brief(last)

SetMgr(m) ==
    /\ embed_dim' = m.embed_dim
    /\ vector_store' = m.vector_store
    /\ storage_context' = m.storage_context
    /\ index' = m.index
    /\ conn' = m.conn
SetDb(d) ==
    /\ dbExtension' = d.ext
    /\ dbTable' = d.table
    /\ dbRows' = d.rows
    /\ orphans' = d.orphans

\* config.py class body: the Config attributes are computed at import
LoadConfig ==
    /\ pc = "boot"
    /\ pc' = "configured"
    /\ OPENAI_EMBEDDING_MODEL_DIM' = ConfigDim(env_dim)
    /\ PGVECTOR_URL' = env_url
    /\ OPENAI_API_KEY' = env_key
    /\ Record(Call("Config", FALSE, <<>>, {}, None))
    /\ UNCHANGED <<env_dim, env_url, env_key, mgrVars, dbVars, engVars, built>>

\* PGVectorManager.__init__
NewManager ==
    /\ pc = "configured"
    /\ IF ~PGVECTOR_URL.set \/ PGVECTOR_URL.val = <<>>
       THEN /\ Record(Call("__init__", TRUE, <<>>, {}, None))    \* ValueError
            /\ UNCHANGED <<pc, mgrVars>>
       ELSE /\ pc' = "manager"
            /\ SetMgr([embed_dim |-> OPENAI_EMBEDDING_MODEL_DIM,
                       vector_store |-> None, storage_context |-> None,
                       index |-> NoIndex, conn |-> None])
            /\ Record(Call("__init__", FALSE, <<>>, {}, None))
    /\ UNCHANGED <<cfgVars, dbVars, engVars, built>>

Initialize ==
    /\ pc = "manager"
    /\ \E in \in InitInputs :
         LET r == InitializeOutcome(Mgr, Db, in)
         IN  /\ conn # "open" => in.finalized
             /\ r.d.orphans <= MaxOrphans
             /\ SetMgr(r.m)
             /\ SetDb(r.d)
             /\ Record(Call("initialize", r.raised, <<>>, r.fail,
                            storage_context))
    /\ UNCHANGED <<pc, cfgVars, engVars, built>>

CreateIndexFromNodes ==
    /\ pc = "manager"
    /\ built.serial < MaxBuilds
    /\ \E nodes \in NodeLists, ok \in BOOLEAN,
          in \in IF storage_context = None THEN InitInputs ELSE {NoInit} :
         LET r == CreateIndexOutcome(Mgr, Db, nodes, in, ok, built.serial + 1)
         IN  /\ dbRows + Len(nodes) <= MaxRows
             /\ conn # "open" => in.finalized
             \* the nodes of a call whose constructor is not reached or
             \* raises are never stored: such a call is enumerated once
             /\ (~ok \/ r.calls = <<"initialize">>) => nodes = <<>>
             /\ r.calls = <<"initialize">> => ok
             /\ r.d.orphans <= MaxOrphans
             /\ SetMgr(r.m)
             /\ SetDb(r.d)
             /\ built' = IF r.raised THEN built
                         ELSE [serial |-> built.serial + 1, nodes |-> nodes]
             /\ Record([Call("create_index_from_nodes", r.raised, r.calls,
                             r.fail, storage_context)
                          EXCEPT !.handle = IF r.raised THEN NoIndex
                                            ELSE r.m.index,
                                 !.at_build = r.at])
    /\ UNCHANGED <<pc, cfgVars, engVars>>

GetIndex ==
    /\ pc = "manager"
    /\ Record([Call("get_index", FALSE, <<>>, {}, storage_context)
                 EXCEPT !.handle = index])
    /\ UNCHANGED <<pc, cfgVars, mgrVars, dbVars, engVars, built>>

ClearData ==
    /\ pc = "manager"
    /\ \E del \in BOOLEAN, trunc \in Outcomes :
         LET r == ClearDataOutcome(Mgr, Db, del, trunc)
         IN  /\ SetMgr(r.m)
             /\ SetDb(r.d)
             /\ Record(Call("clear_data", r.raised, r.calls, r.fail,
                            storage_context))
    /\ UNCHANGED <<pc, cfgVars, engVars, built>>

GetDocumentCount ==
    /\ pc = "manager"
    /\ \E exists \in Outcomes, count \in Outcomes :
         LET r == CountOutcome(Mgr, Db, exists, count)
         IN  /\ SetMgr(r.m)
             /\ Record([Call("get_document_count", r.raised, <<>>, r.fail,
                             storage_context)
                          EXCEPT !.count = r.count])
    /\ UNCHANGED <<pc, cfgVars, dbVars, engVars, built>>

ApplyFilter ==
    /\ pc = "engine"
    /\ \E f \in Filters \cup {NoFilter} :
         /\ filters' = ApplyFilterOutcome(filters, hasSlot, f)
         /\ Record([Call("apply_filter", FALSE, <<>>, {}, filters)
                      EXCEPT !.arg = f])
    /\ UNCHANGED <<pc, cfgVars, mgrVars, dbVars, engCfgVars, built>>

Query ==
    /\ pc = "engine"
    /\ \E arg \in Filters \cup {NoFilter}, ok \in BOOLEAN, ranked \in RankedLists :
         LET r == QueryOutcome(filters, hasSlot, arg, ok,
                               EngineQuery(query_engine, ranked))
         IN  /\ filters' = r.filters
             /\ Record([Call("query", r.raised, <<>>, {}, filters)
                          EXCEPT !.arg = arg, !.used = r.used,
                                 !.response = r.response,
                                 !.citations = r.citations,
                                 !.sources = r.sources])
    /\ UNCHANGED <<pc, cfgVars, mgrVars, dbVars, engCfgVars, built>>

QueryKnowledgeBase ==
    /\ pc = "engine"
    /\ \E valid \in BOOLEAN, ok \in BOOLEAN, ranked \in RankedLists :
         LET r == QueryKnowledgeBaseOutcome(valid, knowledge_base, filters,
                     hasSlot, ok, EngineQuery(query_engine, ranked))
         IN  /\ filters' = r.filters
             /\ Record([Call("query_knowledge_base", r.raised, <<>>, r.fail,
                             filters)
                          EXCEPT !.out = [message |-> r.message,
                                          citations |-> r.citations]])
    /\ UNCHANGED <<pc, cfgVars, mgrVars, dbVars, engCfgVars, built>>

\* main, lines 59-63: validate_config, and return on its ValueError
ValidateConfig ==
    /\ pc = "configured"
    /\ LET r == ValidateConfigOutcome(OPENAI_API_KEY, PGVECTOR_URL)
       IN  /\ pc' = IF r.raised THEN "exit" ELSE "validated"
           /\ Record(Call("validate_config", r.raised, <<>>, {}, None))
    /\ UNCHANGED <<cfgVars, mgrVars, dbVars, engVars, built>>

\* main, line 72: GradioInterface(); initialize_knowledge_base keeps the
\* knowledge base it could build and swallows the failure to build one
CreateInterface ==
    /\ pc = "validated"
    /\ pc' = "created"
    /\ \E ok \in BOOLEAN :
         /\ knowledge_base' = IF ok THEN "KnowledgeBase" ELSE None
         /\ Record(Call("GradioInterface", FALSE, <<>>,
                        IF ok THEN {} ELSE {"knowledge_base"}, None))
    /\ UNCHANGED <<cfgVars, mgrVars, dbVars, filters, hasSlot, similarity_top_k,
                   similarity_cutoff, query_engine, concVars, built>>

\* main, lines 75-78: app.launch, whose second attempt follows a failed first
\* one; its failure is logged and raised again by main
Launch ==
    /\ pc = "created"
    /\ \E first \in BOOLEAN, second \in BOOLEAN :
         LET calls == IF first THEN <<"launch">> ELSE <<"launch", "relaunch">>
             ok == first \/ second
         IN  /\ first => second
             /\ pc' = IF ok THEN "launched" ELSE "exit"
             /\ Record(Call("launch", ~ok, calls,
                            IF first THEN {} ELSE {"launch"}, None))
    /\ UNCHANGED <<cfgVars, mgrVars, dbVars, engVars, built>>

\* A call of query(text, filters=arg), statement by statement.  With mode
\* "serial" a call moves only while no other call is between its first and
\* its last statement.
MayStep(t) ==
    /\ pc = "callers"
    /\ mode = "serial"
         => \A u \in Callers \ {t} : thr[u].pc \in {"idle", "start", "done"}
ConcFrame == UNCHANGED <<pc, cfgVars, mgrVars, dbVars, hasSlot,
                         similarity_top_k, similarity_cutoff, query_engine,
                         knowledge_base, mode, prior, built, last, prev>>
\* lines 107-109: original_filters = None, then the retriever's filter is saved
SaveFilters(t) ==
    /\ MayStep(t)
    /\ thr[t].pc = "start"
    /\ thr' = [thr EXCEPT ![t].pc = "saved",
                          ![t].substituted = Substitutes(hasSlot, thr[t].arg),
                          ![t].original_filters =
                              IF Substitutes(hasSlot, thr[t].arg)
                              THEN filters ELSE None]
    /\ UNCHANGED filters
    /\ ConcFrame
\* line 110
SubstituteFilters(t) ==
    /\ MayStep(t)
    /\ thr[t].pc = "saved"
    /\ filters' = IF thr[t].substituted THEN thr[t].arg ELSE filters
    /\ thr' = [thr EXCEPT ![t].pc = "set"]
    /\ ConcFrame
\* line 113, and lines 136-138 when it raises
RunQuery(t) ==
    /\ MayStep(t)
    /\ thr[t].pc = "set"
    /\ \E ok \in BOOLEAN :
         thr' = [thr EXCEPT ![t].pc = IF ok THEN "ran" ELSE "done",
                            ![t].raised = ~ok]
    /\ UNCHANGED filters
    /\ ConcFrame
\* lines 116-117, and the return
RestoreFilters(t) ==
    /\ MayStep(t)
    /\ thr[t].pc = "ran"
    /\ filters' = RestoredFilters(filters, thr[t].arg,
                                  thr[t].original_filters)
    /\ thr' = [thr EXCEPT ![t].pc = "done"]
    /\ ConcFrame

(***************************************************************************)
(* Specifications                                                          *)
(***************************************************************************)
NoManager ==
    /\ embed_dim = 0
    /\ vector_store = None
    /\ storage_context = None
    /\ index = NoIndex
    /\ conn = None
NoCallers ==
    /\ mode = "serial"
    /\ prior = NoFilter
    /\ thr = [t \in Callers |-> Idle]
IdleEngine ==
    /\ filters = NoFilter
    /\ hasSlot = TRUE
    /\ similarity_top_k = DefaultTopK
    /\ similarity_cutoff = DefaultCutoff
    /\ query_engine = AsQueryEngine(similarity_top_k, similarity_cutoff)
    /\ knowledge_base = None
    /\ NoCallers
NoHistory == built = NoIndex /\ last = NoCall /\ prev = Brief(NoCall)
Configured ==
    /\ env_dim = Unset
    /\ env_url = EnvStr(<<"p", "g">>)
    /\ env_key = EnvStr(<<"s", "k">>)
    /\ OPENAI_EMBEDDING_MODEL_DIM = ConfigDim(env_dim)
    /\ PGVECTOR_URL = env_url
    /\ OPENAI_API_KEY = env_key

\* The store manager after PGVectorManager(), over a database that an earlier
\* run may have filled.
Init ==
    /\ pc = "manager"
    /\ Configured
    /\ embed_dim = OPENAI_EMBEDDING_MODEL_DIM
    /\ vector_store = None
    /\ storage_context = None
    /\ index = NoIndex
    /\ conn = None
    /\ dbExtension \in BOOLEAN
    /\ dbTable \in BOOLEAN
    /\ dbRows \in 0..MaxRows
    /\ ~dbTable => dbRows = 0
    /\ orphans = 0
    /\ IdleEngine
    /\ NoHistory
Next ==
    \/ Initialize
    \/ CreateIndexFromNodes
    \/ GetIndex
    \/ ClearData
    \/ GetDocumentCount
Spec == Init /\ [][Next]_vars

\* Process start: the environment is read, Config is loaded, the manager is
\* constructed and initialized.
InitConfig ==
    /\ pc = "boot"
    /\ env_dim \in EnvDims
    /\ env_url \in EnvUrls
    /\ env_key = EnvStr(<<"s", "k">>)
    /\ OPENAI_EMBEDDING_MODEL_DIM = 0
    /\ PGVECTOR_URL = Unset
    /\ OPENAI_API_KEY = Unset
    /\ NoManager
    /\ dbExtension = FALSE /\ dbTable = FALSE /\ dbRows = 0 /\ orphans = 0
    /\ IdleEngine
    /\ NoHistory
NextConfig ==
    \/ LoadConfig
    \/ NewManager
    \/ Initialize
SpecConfig == InitConfig /\ [][NextConfig]_vars

\* The process at the start of main(), before app.utils.config is loaded.
InitMain ==
    /\ pc = "boot"
    /\ env_dim \in EnvDims
    /\ env_url \in EnvUrls
    /\ env_key \in EnvKeys
    /\ OPENAI_EMBEDDING_MODEL_DIM = 0
    /\ PGVECTOR_URL = Unset
    /\ OPENAI_API_KEY = Unset
    /\ NoManager
    /\ dbExtension = FALSE /\ dbTable = FALSE /\ dbRows = 0 /\ orphans = 0
    /\ IdleEngine
    /\ NoHistory
NextMain ==
    \/ LoadConfig
    \/ ValidateConfig
    \/ CreateInterface
    \/ Launch
SpecMain == InitMain /\ [][NextMain]_vars

\* One engine on whose retriever a filter may have been set, and MaxCallers
\* calls of query with per-call filters about to begin.
InitCallers ==
    /\ pc = "callers"
    /\ Configured
    /\ NoManager
    /\ dbExtension = FALSE /\ dbTable = FALSE /\ dbRows = 0 /\ orphans = 0
    /\ hasSlot = TRUE
    /\ similarity_top_k = DefaultTopK
    /\ similarity_cutoff = DefaultCutoff
    /\ query_engine = AsQueryEngine(similarity_top_k, similarity_cutoff)
    /\ knowledge_base = None
    /\ mode \in {"serial", "concurrent"}
    /\ prior \in Filters \cup {NoFilter}
    /\ filters = prior
    /\ thr \in [Callers -> { [Idle EXCEPT !.pc = "start", !.arg = f] :
                                f \in Filters }]
    /\ NoHistory
NextCallers ==
    \/ \E t \in Callers : SaveFilters(t)
    \/ \E t \in Callers : SubstituteFilters(t)
    \/ \E t \in Callers : RunQuery(t)
    \/ \E t \in Callers : RestoreFilters(t)
SpecCallers == InitCallers /\ [][NextCallers]_vars

\* The query engine after RAGQueryEngine(...): as_query_engine is given no
\* filters, so the retriever starts without one.
InitEngine ==
    /\ pc = "engine"
    /\ Configured
    /\ NoManager
    /\ dbExtension = FALSE /\ dbTable = FALSE /\ dbRows = 0 /\ orphans = 0
    /\ filters = NoFilter
    /\ hasSlot \in BOOLEAN
    /\ similarity_top_k \in TopKs
    /\ similarity_cutoff \in Cutoffs
    /\ query_engine = AsQueryEngine(similarity_top_k, similarity_cutoff)
    /\ knowledge_base \in {None, "KnowledgeBase"}
    /\ NoCallers
    /\ NoHistory
NextEngine ==
    \/ ApplyFilter
    \/ Query
    \/ QueryKnowledgeBase
SpecEngine == InitEngine /\ [][NextEngine]_vars

(***************************************************************************)
(* Properties                                                              *)
(***************************************************************************)
Has(calls, c) == \E i \in 1..Len(calls) : calls[i] = c

\* C1: after query(text, filters=f) returns, the active filter is the one that
\* was active before the call, whatever that was (none or some predicate).
C1_FilterRestoredAfterQuery ==
    (last.op = "query" /\ ~last.raised /\ last.arg # NoFilter)
        => filters = last.pre

\* C2: a substituted per-call filter is restored on every exit path: after
\* query raised, the active filter is the one active before the call (stated
\* for a previous filter that the success path does restore).
C2_FilterRestoredAfterRaise ==
    (last.op = "query" /\ last.raised /\ last.arg # NoFilter /\ hasSlot
       /\ last.pre # NoFilter)
        => filters = last.pre

\* C3 as stated: get_document_count returns 0 when the table does not exist
\* and the number of rows of the table when it exists.
C3_CountIsRowCount ==
    last.op = "get_document_count"
        => last.count = (IF dbTable THEN dbRows ELSE 0)

\* C3 amended: get_document_count returns 0 when the table does not exist;
\* when it exists it returns the number of rows provided the store client is
\* set, the auxiliary connection is open and both statements succeed, and 0
\* in every other case.
C3_CountIsRowCountWhenReadable ==
    last.op = "get_document_count"
        => last.count =
             (IF dbTable /\ vector_store # None /\ conn = "open" /\ last.fail = {}
              THEN dbRows ELSE 0)
C3_Witness ==
    /\ last.op = "get_document_count"
    /\ built.serial = 2
    /\ last.count = dbRows
    /\ dbRows >= 2

\* C4 as stated: get_document_count right after clear_data returns 0.
C4_ClearThenCountZero ==
    (last.op = "get_document_count" /\ prev.op = "clear_data")
        => last.count = 0

\* C4 amended: get_document_count right after clear_data returns 0 unless
\* both the bulk delete and the fallback TRUNCATE failed.
C4_ClearThenCountZeroUnlessTruncateFailed ==
    (last.op = "get_document_count" /\ prev.op = "clear_data"
       /\ "truncate" \notin prev.fail)
        => last.count = 0
C4_Witness ==
    /\ last.op = "get_document_count"
    /\ last.fail = {}
    /\ last.count = 0
    /\ prev.op = "clear_data"
    /\ prev.calls = <<"delete", "truncate">>
    /\ prev.fail = {"delete"}
    /\ built.serial >= 1
    /\ Len(built.nodes) >= 1

\* C5: clear_data attempts the bulk delete first, issues TRUNCATE only after
\* the bulk delete raised, and never raises, also when both fail.
C5_ClearDataFallbackOrder ==
    last.op = "clear_data"
        => /\ ~last.raised
           /\ vector_store # None => (last.calls # <<>> /\ last.calls[1] = "delete")
           /\ Has(last.calls, "truncate")
                => (last.calls = <<"delete", "truncate">> /\ "delete" \in last.fail)
C5_Witness ==
    /\ last.op = "clear_data"
    /\ last.fail = {"delete", "truncate"}
    /\ ~last.raised
    /\ dbRows > 0

\* C6: get_document_count never raises; with no store client, no open
\* auxiliary connection or a failing statement it returns 0.
C6_CountNeverRaises ==
    last.op = "get_document_count"
        => /\ ~last.raised
           /\ (last.fail # {} \/ vector_store = None \/ conn # "open")
                => last.count = 0
C6_Witness ==
    /\ last.op = "get_document_count"
    /\ "count" \in last.fail
    /\ dbTable /\ dbRows > 0
    /\ last.count = 0
    /\ ~last.raised

\* C7 as stated: initialize returns with vector_store and storage_context set
\* unless the store client cannot be constructed; then it raises and
\* storage_context is unset.
C7_StoreFailureLeavesContextUnset ==
    last.op = "initialize"
        => IF "store" \in last.fail
           THEN last.raised /\ storage_context = None
           ELSE ~last.raised /\ vector_store # None /\ storage_context # None

\* C7 amended: initialize returns with vector_store and storage_context set
\* unless the store client cannot be constructed; then it raises and leaves
\* storage_context as it was before the call (unset on a manager that was
\* never initialized).
C7_StoreFailureLeavesContextUnchanged ==
    last.op = "initialize"
        => IF "store" \in last.fail
           THEN last.raised /\ storage_context = last.pre
           ELSE ~last.raised /\ vector_store # None /\ storage_context # None
C7_Witness ==
    /\ last.op = "initialize"
    /\ "extension" \in last.fail
    /\ "create" \in last.fail
    /\ ~last.raised
    /\ ~dbTable
    /\ storage_context # None

\* C8: the embedding dimension of Config and of the manager is the configured
\* value when that is a positive integer and 1536 otherwise; it is always
\* positive.
ExpectedDim(e) ==
    IF e.set /\ IsIntLiteral(e.val) /\ IntValue(e.val) > 0
    THEN IntValue(e.val) ELSE DefaultEmbedDim
C8_EmbedDimValid ==
    /\ pc # "boot" => /\ OPENAI_EMBEDDING_MODEL_DIM > 0
                      /\ OPENAI_EMBEDDING_MODEL_DIM = ExpectedDim(env_dim)
    /\ pc = "manager" => /\ embed_dim > 0
                         /\ embed_dim = ExpectedDim(env_dim)
C8_Witness ==
    /\ pc = "manager"
    /\ last.op = "initialize"
    /\ env_dim = EnvStr(<<"-", "5">>)
    /\ embed_dim = DefaultEmbedDim

\* C9: get_index returns none until a create_index_from_nodes call succeeded,
\* and then the handle the most recent successful call built, over the nodes
\* given to that call.
C9_GetIndexIsLastBuilt ==
    /\ index = built
    /\ last.op = "get_index" => last.handle = built
    /\ (last.op = "create_index_from_nodes" /\ ~last.raised) => last.handle = index
C9_Witness ==
    /\ last.op = "get_index"
    /\ last.handle.serial = 2
    /\ Len(last.handle.nodes) = 2

\* C10: create_index_from_nodes never builds on a manager without a storage
\* context: it runs initialize first when there is none, and when that
\* initialize fails it raises without building.
C10_NoBuildBeforeInitialize ==
    /\ index # NoIndex => (storage_context # None /\ vector_store # None)
    /\ last.op = "create_index_from_nodes"
         => /\ ~Has(last.calls, "build(None)")
            /\ last.pre = None => (last.calls # <<>> /\ last.calls[1] = "initialize")
            /\ "store" \in last.fail
                 => (last.raised /\ last.calls = <<"initialize">> /\ index = built)
C10_Witness ==
    /\ last.op = "create_index_from_nodes"
    /\ last.pre = None
    /\ "store" \in last.fail
    /\ last.raised
    /\ index = NoIndex

\* C11: initialize is idempotent: a second initialize() right after one that
\* ran without any failure, itself without failure, leaves the manager, the
\* database and the open connections as they were.
C11_InitializeIdempotent ==
    [][(last.op = "initialize" /\ last.fail = {}
          /\ last'.op = "initialize" /\ last'.fail = {})
         => (Mgr' = Mgr /\ Db' = Db)]_vars

C13_OneCitationPerSourceNode ==
    (last.op = "query" /\ ~last.raised)
        => /\ last.response = "answer"
           /\ Len(last.citations) = Len(last.sources)
           /\ \A i \in 1..Len(last.sources) :
                /\ last.citations[i].content = last.sources[i].node.content
                /\ last.citations[i].score = last.sources[i].score
                /\ last.citations[i].metadata = last.sources[i].node.metadata
C13_Witness ==
    /\ last.op = "query" /\ ~last.raised
    /\ Len(last.sources) = 2
    /\ last.sources[1].node.content # last.sources[2].node.content
    /\ Len(last.citations) = 2

\* C14: apply_filter(f) makes f the active filter when the retriever has a
\* filter slot; without one it changes nothing and does not raise.
C14_ApplyFilterSetsOrSkips ==
    last.op = "apply_filter"
        => /\ ~last.raised
           /\ hasSlot => filters = last.arg
           /\ ~hasSlot => filters = last.pre
C14_Witness ==
    /\ last.op = "apply_filter"
    /\ ~hasSlot
    /\ last.arg = "f1"
    /\ filters = NoFilter

\* C15: a failing retrieval or generation makes query raise without a result,
\* and query_knowledge_base answers it with a failure message and no
\* citations instead of raising.
C15_QueryFailurePropagatesToMessage ==
    /\ (last.op = "query" /\ last.raised)
         => (last.response = "" /\ last.citations = <<>>)
    /\ last.op = "query_knowledge_base"
         => /\ ~last.raised
            /\ "query" \in last.fail
                 => (last.out.message = "query failed"
                       /\ last.out.citations = <<>>)
C15_Witness ==
    /\ last.op = "query_knowledge_base"
    /\ "query" \in last.fail
    /\ last.out.message = "query failed"
    /\ knowledge_base # None

\* C16: validate_config raises when the API key or the connection URL is
\* unset or empty, main() then ends without creating or launching the
\* interface, and the interface is created and launched only by steps that
\* follow a validate_config that returned.
C16_StartupRejectedWithoutSettings ==
    /\ (last.op = "validate_config"
          /\ (~Truthy(OPENAI_API_KEY) \/ ~Truthy(PGVECTOR_URL)))
         => (last.raised /\ pc = "exit")
    /\ pc \in {"created", "launched"}
         => (Truthy(env_key) /\ Truthy(env_url))
    /\ last.op \in {"GradioInterface", "launch"}
         => prev.op \in {"validate_config", "GradioInterface"}
    /\ (last.op = "GradioInterface" /\ prev.op = "validate_config")
         => pc = "created"
C16_Witness ==
    /\ pc = "exit"
    /\ last.op = "validate_config" /\ last.raised
    /\ Truthy(OPENAI_API_KEY)
    /\ PGVECTOR_URL = EnvStr(<<>>)

\* C17: whenever create_index_from_nodes calls the index constructor, the
\* vector extension is installed and the table exists.
C17_ExtensionAndTableExistAtBuild ==
    (last.op = "create_index_from_nodes" /\ Has(last.calls, "build"))
        => (last.at_build.ext /\ last.at_build.table)
\* C17: an initialize() in which no step failed leaves the extension installed
\* and the table present, nothing the manager does removes either, and so
\* the index constructor finds both whenever they existed before the call or
\* the automatic initialize() of that call went through without a failure.
C17_ExtensionAndTableAfterUnfailedInitialize ==
    [][/\ (last'.op = "initialize" /\ last'.fail = {})
            => (dbExtension' /\ dbTable')
       /\ dbExtension => dbExtension'
       /\ dbTable => dbTable'
       /\ (last'.op = "create_index_from_nodes" /\ Has(last'.calls, "build"))
            => /\ (dbExtension /\ dbTable)
                    => (last'.at_build.ext /\ last'.at_build.table)
               /\ (Has(last'.calls, "initialize")
                     /\ last'.fail \subseteq {"build"})
                    => (last'.at_build.ext /\ last'.at_build.table)]_vars
C17_Witness ==
    /\ last.op = "create_index_from_nodes"
    /\ last.calls = <<"initialize", "build">>
    /\ last.fail = {}
    /\ last.at_build.ext /\ last.at_build.table
    /\ dbRows = Len(last.handle.nodes)
    /\ dbRows > 0

\* C18: when calls of query with per-call filters run one after the other on
\* an engine whose active filter is set, and all have returned, the active
\* filter is the one from before the calls; run concurrently, two such calls
\* can both return and leave a per-call filter active (C18_Witness).
AllReturned == \A t \in Callers : thr[t].pc = "done" /\ ~thr[t].raised
C18_SerialCallsRestoreFilter ==
    (mode = "serial" /\ prior # NoFilter /\ AllReturned) => filters = prior
C18_Witness ==
    /\ mode = "concurrent"
    /\ prior # NoFilter
    /\ AllReturned
    /\ filters # prior
    /\ \E t \in Callers : filters = thr[t].arg

\* C19: clear_data and get_document_count leave vector_store,
\* storage_context, the index handle and the reference to the auxiliary
\* connection as they were (the connection itself can only be found lost by a
\* statement that fails), touch nothing of the database but the rows, which
\* get_document_count leaves too, and on a manager without a store client they
\* do nothing, the count being 0; get_index after clear_data returns the
\* handle built before it, and a create_index_from_nodes that raises leaves
\* the index handle as it was.
C19_ClearAndCountKeepManager ==
    [][/\ last'.op \in {"clear_data", "get_document_count"}
            => /\ vector_store' = vector_store
               /\ storage_context' = storage_context
               /\ index' = index
               /\ embed_dim' = embed_dim
               /\ conn' # conn
                    => (conn = "open" /\ conn' = "closed" /\ last'.fail # {})
               /\ dbExtension' = dbExtension
               /\ dbTable' = dbTable
               /\ orphans' = orphans
               /\ last'.op = "get_document_count" => dbRows' = dbRows
               /\ ~last'.raised
               /\ vector_store = None
                    => /\ Mgr' = Mgr
                       /\ Db' = Db
                       /\ last'.calls = <<>>
                       /\ last'.fail = {}
                       /\ last'.count = 0
       /\ (last'.op = "get_index" /\ last.op = "clear_data")
            => (last'.handle = index /\ last'.handle = built)
       /\ (last'.op = "create_index_from_nodes" /\ last'.raised)
            => index' = index]_vars
C19_Witness ==
    /\ last.op = "get_index"
    /\ prev.op = "clear_data"
    /\ prev.calls = <<"delete">>
    /\ dbRows = 0
    /\ last.handle.serial >= 1
    /\ Len(last.handle.nodes) >= 1

=============================================================================
